---- MODULE Spec2Model ----
(***************************************************************************)
(* goterm: the screen buffer (screen.go), its cells (cell.go) and colors   *)
(* (color.go), as state machines.                                          *)
(*                                                                         *)
(*   Spec      one goroutine calling the Screen's operations; every call   *)
(*             is one step (lock, body, unlock).                           *)
(*   SpecConc  two goroutines calling them concurrently, step by step.     *)
(*   SpecLive  the same on Screens of one row, under the scheduling of     *)
(*             the goroutines and of sync.RWMutex.                         *)
(*   SpecShow  one goroutine filling a Screen and rendering it, the sink   *)
(*             failing or not at each write.                               *)
(*   SpecColor the colors: constructors, To256, To16, ansiCode.            *)
(*   SpecStyle the style flags: Set, Clear, Toggle, Has.                   *)
(*   SpecTerm  Init and Close on the terminal.                             *)
(***************************************************************************)
EXTENDS Integers, Sequences, FiniteSets, TLC

(***************************************************************************)
(* Bounds of the model.                                                    *)
(***************************************************************************)
\* a buffer holds at most MaxCells cells (width*height <= MaxCells)
MaxCells == 4

(***************************************************************************)
(* color.go                                                                *)
(***************************************************************************)
ColorModeDefault == 0
ColorMode16 == 1
ColorMode256 == 2
ColorModeTrueColor == 3

ColorDefault == [mode |-> ColorModeDefault, r |-> 0, g |-> 0, b |-> 0, index |-> 0]

ColorRGB(r, g, b) == [mode |-> ColorModeTrueColor, r |-> r, g |-> g, b |-> b, index |-> 0]

\* ColorIndex taking 16 for one of the 16 colors
ColorIndex_Through16(index) ==
    [mode |-> IF index <= 16 THEN ColorMode16 ELSE ColorMode256,
     r |-> 0, g |-> 0, b |-> 0, index |-> index]

\* ColorIndex(index)
ColorIndex(index) ==
    [mode |-> IF index < 16 THEN ColorMode16 ELSE ColorMode256,
     r |-> 0, g |-> 0, b |-> 0, index |-> index]

ColorRed == ColorIndex(1)

(***************************************************************************)
(* style flags                                                             *)
(***************************************************************************)
StyleNone == 0
StyleBold == 1

(***************************************************************************)
(* cell.go                                                                 *)
(***************************************************************************)
NewCell(ch, fg, bg, style) == [Ch |-> ch, Fg |-> fg, Bg |-> bg, Style |-> style]

Equal(c, other) ==
    /\ c.Ch = other.Ch
    /\ c.Fg = other.Fg
    /\ c.Bg = other.Bg
    /\ c.Style = other.Style

\* NewCell(' ', ColorDefault(), ColorDefault(), StyleNone)
DefaultCell == NewCell(32, ColorDefault, ColorDefault, StyleNone)

\* the zero value of Cell, what make([]Cell, n) holds
ZeroCell == NewCell(0, ColorDefault, ColorDefault, StyleNone)

(***************************************************************************)
(* errors.go.  An error is the chain errors.Unwrap walks: its head is the  *)
(* error's own message, its tail the error it wraps; nil is the empty      *)
(* chain.  v is an error formatted into the message with %v, which         *)
(* Unwrap does not reach.                                                  *)
(***************************************************************************)
Nil == <<>>

\* errors.New(text)
New(text) == <<[text |-> text, v |-> <<>>]>>

ErrNotATerminal == New("not a terminal")
ErrTerminalSetupFailed == New("terminal setup failed")
ErrTerminalRestoreFailed == New("terminal restore failed")

\* fmt.Errorf(text + ": %w", err)
Errorf(text, err) == <<[text |-> text, v |-> <<>>]>> \o err

\* fmt.Errorf("%w: " + text + "%v", sentinel, err)
ErrorfV(sentinel, text, err) == <<[text |-> text, v |-> err]>> \o sentinel

\* errors.Is(err, target)
Is(err, target) == \E i \in 1 .. Len(err) : SubSeq(err, i, Len(err)) = target

\* the errors the sink's Write and the platform's calls fail with
EIO == New("input/output error")
EPIPE == New("broken pipe")
SinkErrors == {EIO, EPIPE}

(***************************************************************************)
(* Inputs of the model.                                                    *)
(***************************************************************************)
\* the attributes DrawText is called with
TextFg == ColorRed
TextBg == ColorRGB(0, 0, 255)
TextStyle == StyleBold

\* the cells SetCell is called with: the default cell, 'A' and U+00E9
Palette ==
    {DefaultCell,
     NewCell(65, TextFg, TextBg, TextStyle),
     NewCell(233, TextFg, TextBg, TextStyle)}

\* the strings DrawText is called with, as UTF-8 bytes: "", "A", "éA"
Texts == {<<>>, <<65>>, <<195, 169, 65>>}

\* coordinates given to a w x h buffer: every in-range one, and the nearest
\* out-of-range ones on each of the four sides
Coords(w, h) ==
    {c \in (-1 .. w) \X (-1 .. h) : (0 <= c[1] /\ c[1] < w) \/ (0 <= c[2] /\ c[2] < h)}

\* dimensions given to NewScreen and Resize: every w x h of at most MaxCells
\* cells, a negative width, a zero height, both zero
Dims ==
    {d \in (-1 .. MaxCells) \X (0 .. MaxCells) :
        \/ d[1] > 0 /\ d[2] > 0 /\ d[1] * d[2] <= MaxCells
        \/ d[1] = -1 /\ d[2] > 0
        \/ d[1] > 0 /\ d[2] = 0
        \/ d[1] = 0 /\ d[2] = 0}

(***************************************************************************)
(* []rune(text): UTF-8 decoding of one- and two-byte sequences; any other  *)
(* byte decodes to U+FFFD and is one byte wide.                            *)
(***************************************************************************)
\* the string walked byte by byte
Runes_Bytes(bytes) == bytes

RECURSIVE Runes(_)
Runes(bytes) ==
    IF bytes = <<>> THEN <<>>
    ELSE IF bytes[1] < 128
         THEN <<bytes[1]>> \o Runes(Tail(bytes))
    ELSE IF /\ bytes[1] >= 194 /\ bytes[1] < 224
            /\ Len(bytes) >= 2 /\ bytes[2] >= 128 /\ bytes[2] < 192
         THEN <<(bytes[1] - 192) * 64 + (bytes[2] - 128)>> \o Runes(Tail(Tail(bytes)))
    ELSE <<65533>> \o Runes(Tail(bytes))

(***************************************************************************)
(* screen.go: the Screen                                                   *)
(***************************************************************************)
VARIABLES
    fault,      \* "none", or the panic that ended the program
    width,      \* s.width
    height,     \* s.height
    cells,      \* s.cells, cells[i+1] is the Go slice's element i
    last,       \* Spec: the call that ran last (for Clear, x counts the cells it reset)
    mu,         \* s.mu: w, the writer holding or waiting for it; r, the readers in it
    g,          \* SpecConc: each goroutine's position (pc) and local variables
    abs,        \* SpecConc: the buffer the completed writes give, applied one at a time
    colorOp,    \* SpecColor: the Color method that ran last, its receiver and result
    styleOp,    \* SpecStyle: the Style method that ran last, its receiver and result
    tty         \* SpecTerm: the terminal, and Init and Close at work on it

scr == <<width, height, cells>>
conc == <<mu, g, abs>>
ext == <<colorOp, styleOp, tty>>
vars == <<fault, width, height, cells, last, mu, g, abs, colorOp, styleOp, tty>>

\* the variables of the other specifications, at rest
NoColorOp == [op |-> "", c |-> ColorDefault, fg |-> FALSE, out |-> ColorDefault, code |-> <<>>]
NoStyleOp == [op |-> "", s |-> StyleNone, flag |-> 0, out |-> StyleNone, has |-> FALSE]
NoTty ==
    [pc |-> "", isTerminal |-> FALSE, mode |-> "cooked", found |-> "cooked", cursor |-> TRUE,
     size |-> <<0, 0>>, fd |-> 0, oldState |-> "nil", cause |-> <<>>, restores |-> 0,
     rerr |-> <<>>, err |-> <<>>]

ExtAtRest ==
    /\ colorOp = NoColorOp
    /\ styleOp = NoStyleOp
    /\ tty = NoTty

\* a call in the log: was is <<s.width, s.height>> when it began; cell is the
\* cell SetCell was given, the cell GetCell returned, the attributes of DrawText
Call(op, x, y, cell, text, was) ==
    [op |-> op, x |-> x, y |-> y, cell |-> cell, text |-> text, was |-> was]

\* the number of cells of cs that are not the default cell
Used(cs) == Cardinality({i \in DOMAIN cs : cs[i] # DefaultCell})

\* the bounds check with x > w for x >= w
OutOfBounds_PastWidth(x, y, w, h) == x < 0 \/ y < 0 \/ x > w \/ y >= h

\* the bounds check of SetCell and GetCell
OutOfBounds(x, y, w, h) == x < 0 \/ y < 0 \/ x >= w \/ y >= h

\* s.cells[y*s.width+x]
Idx(x, y, w) == y * w + x

\* the fill loop starting at element 1
Fill_SkipFirst(cs) == [i \in DOMAIN cs |-> IF i = 1 THEN cs[i] ELSE DefaultCell]

\* for i := range cs { cs[i] = defaultCell }
Fill(cs) == [i \in DOMAIN cs |-> DefaultCell]

\* make([]Cell, n)
Make(n) == [i \in 1 .. n |-> ZeroCell]

\* NewScreen without its s.Clear()
NewScreen_NoClear(w, h) ==
    IF w <= 0 \/ h <= 0
    THEN [panic |-> TRUE, width |-> 0, height |-> 0, cells |-> <<>>]
    ELSE [panic |-> FALSE, width |-> w, height |-> h, cells |-> Make(w * h)]

\* NewScreen: the Screen it returns, or a panic
NewScreen(w, h) ==
    IF w <= 0 \/ h <= 0
    THEN [panic |-> TRUE, width |-> 0, height |-> 0, cells |-> <<>>]
    ELSE [panic |-> FALSE, width |-> w, height |-> h, cells |-> Fill(Make(w * h))]

\* SetCell indexing x*s.width+y
SetCellCells_Swapped(cs, w, h, x, y, cell) ==
    IF OutOfBounds(x, y, w, h) THEN cs
    ELSE [cs EXCEPT ![Idx(y, x, w) + 1] = cell]

\* the cell array after SetCell(x, y, cell) on a w x h buffer
SetCellCells(cs, w, h, x, y, cell) ==
    IF OutOfBounds(x, y, w, h) THEN cs
    ELSE [cs EXCEPT ![Idx(x, y, w) + 1] = cell]

\* what GetCell(x, y) returns on a w x h buffer
GetCellOf(cs, w, h, x, y) ==
    IF OutOfBounds(x, y, w, h) THEN NewCell(32, ColorDefault, ColorDefault, StyleNone)
    ELSE cs[Idx(x, y, w) + 1]

\* DrawText writing on into the next row past the right edge
DrawTextCells_Wrap(cs, w, h, x, y, runes, i, fg, bg, style) ==
    [n \in DOMAIN cs |->
        LET k == (n - 1) - Idx(x, y, w)
        IN IF 0 <= y /\ y < h /\ x >= 0 /\ k >= i /\ k < Len(runes)
           THEN NewCell(runes[k + 1], fg, bg, style)
           ELSE cs[n]]

\* the cell array after DrawText has set runes[i+1 ..], one SetCell each
RECURSIVE DrawTextCells(_, _, _, _, _, _, _, _, _, _)
DrawTextCells(cs, w, h, x, y, runes, i, fg, bg, style) ==
    IF i >= Len(runes) THEN cs
    ELSE DrawTextCells(SetCellCells(cs, w, h, x + i, y, NewCell(runes[i + 1], fg, bg, style)),
                       w, h, x, y, runes, i + 1, fg, bg, style)

Min(a, b) == IF a < b THEN a ELSE b

\* the copy reading the old array with the new width
CopyRow_NewWidth(newCells, cs, w, newW, minWidth, y, x) ==
    [n \in DOMAIN newCells |->
        LET cx == (n - 1) % newW
            cy == (n - 1) \div newW
        IN IF cy = y /\ cx >= x /\ cx < minWidth /\ Idx(cx, cy, newW) + 1 \in DOMAIN cs
           THEN cs[Idx(cx, cy, newW) + 1]
           ELSE newCells[n]]

\* Resize, the inner loop: for x := x; x < minWidth; x++ { newCells[y*width+x] = s.cells[y*s.width+x] }
RECURSIVE CopyRow(_, _, _, _, _, _, _)
CopyRow(newCells, cs, w, newW, minWidth, y, x) ==
    IF x >= minWidth THEN newCells
    ELSE CopyRow([newCells EXCEPT ![Idx(x, y, newW) + 1] = cs[Idx(x, y, w) + 1]],
                 cs, w, newW, minWidth, y, x + 1)

\* Resize, the outer loop: for y := y; y < minHeight; y++
RECURSIVE CopyRows(_, _, _, _, _, _, _)
CopyRows(newCells, cs, w, newW, minWidth, minHeight, y) ==
    IF y >= minHeight THEN newCells
    ELSE CopyRows(CopyRow(newCells, cs, w, newW, minWidth, y, 0),
                  cs, w, newW, minWidth, minHeight, y + 1)

\* the guard with "and" for "or"
ResizeRejects_Both(w, h) == w <= 0 /\ h <= 0

\* the guard that forgets the height
ResizeRejects_WidthOnly(w, h) == w <= 0

\* Resize returns at once
ResizeRejects(w, h) == w <= 0 \/ h <= 0

\* Resize: newCells, filled with the default cell, then the overlap copied
ResizeCells(cs, w, h, newW, newH) ==
    CopyRows(Fill(Make(newW * newH)), cs, w, newW, Min(newW, w), Min(newH, h), 0)

(***************************************************************************)
(* The goroutines of SpecConc, at rest in Spec.                            *)
(***************************************************************************)
Procs == {"g1", "g2"}

NoAttr == [fg |-> ColorDefault, bg |-> ColorDefault, style |-> StyleNone, needsReset |-> FALSE]

\* a goroutine between two calls
Idle ==
    [pc |-> "idle", op |-> "", x |-> 0, y |-> 0, cell |-> DefaultCell, runes |-> <<>>,
     i |-> 0, newCells |-> <<>>, out |-> <<>>, attr |-> NoAttr, err |-> Nil,
     snap |-> <<>>]

Unlocked == [w |-> "none", r |-> {}]

Buffer(w, h, cs) == [width |-> w, height |-> h, cells |-> cs]

(***************************************************************************)
(* Spec: one goroutine; each call runs to completion.                      *)
(***************************************************************************)
Init ==
    \E d \in Dims :
        LET s == NewScreen(d[1], d[2])
        IN /\ fault = IF s.panic THEN "invalid screen dimensions" ELSE "none"
           /\ width = s.width
           /\ height = s.height
           /\ cells = s.cells
           /\ last = Call("NewScreen", d[1], d[2], DefaultCell, <<>>, <<0, 0>>)
           /\ mu = Unlocked
           /\ g = [p \in Procs |-> Idle]
           /\ abs = Buffer(0, 0, <<>>)
           /\ ExtAtRest

Size ==
    /\ fault = "none"
    /\ last' = Call("Size", width, height, DefaultCell, <<>>, <<width, height>>)
    /\ UNCHANGED <<fault, scr, conc>>
    /\ UNCHANGED ext

SetCell(x, y, cell) ==
    /\ fault = "none"
    /\ cells' = SetCellCells(cells, width, height, x, y, cell)
    /\ last' = Call("SetCell", x, y, cell, <<>>, <<width, height>>)
    /\ UNCHANGED <<fault, width, height, conc>>
    /\ UNCHANGED ext

GetCell(x, y) ==
    /\ fault = "none"
    /\ last' = Call("GetCell", x, y, GetCellOf(cells, width, height, x, y), <<>>, <<width, height>>)
    /\ UNCHANGED <<fault, scr, conc>>
    /\ UNCHANGED ext

Clear ==
    /\ fault = "none"
    /\ cells' = Fill(cells)
    /\ last' = Call("Clear", Used(cells), 0, DefaultCell, <<>>, <<width, height>>)
    /\ UNCHANGED <<fault, width, height, conc>>
    /\ UNCHANGED ext

DrawText(x, y, text, fg, bg, style) ==
    /\ fault = "none"
    /\ cells' = DrawTextCells(cells, width, height, x, y, Runes(text), 0, fg, bg, style)
    /\ last' = Call("DrawText", x, y, NewCell(32, fg, bg, style), text, <<width, height>>)
    /\ UNCHANGED <<fault, width, height, conc>>
    /\ UNCHANGED ext

Resize(w, h) ==
    /\ fault = "none"
    /\ IF ResizeRejects(w, h)
       THEN UNCHANGED <<width, height, cells>>
       ELSE /\ width' = w
            /\ height' = h
            /\ cells' = ResizeCells(cells, width, height, w, h)
    /\ last' = Call("Resize", w, h, DefaultCell, <<>>, <<width, height>>)
    /\ UNCHANGED <<fault, conc>>
    /\ UNCHANGED ext

Next ==
    \/ Size
    \/ \E c \in Coords(width, height), cell \in Palette : SetCell(c[1], c[2], cell)
    \/ \E c \in Coords(width, height) : GetCell(c[1], c[2])
    \/ Clear
    \/ \E c \in Coords(width, height), t \in Texts :
           DrawText(c[1], c[2], t, TextFg, TextBg, TextStyle)
    \/ \E d \in Dims : Resize(d[1], d[2])

Spec == Init /\ [][Next]_vars

(***************************************************************************)
(* color.go, cell styles: the escape sequences.  A write to the sink is a  *)
(* token: k names the sequence, p holds its parameters.                    *)
(*   home   ESC [ H          sgr   ESC [ p1 ; p2 ; ... m                   *)
(*   ch     the character p[1]        crlf  CR LF                          *)
(***************************************************************************)
Token(k, p) == [k |-> k, p |-> p]

\* uint8 arithmetic
U8(n) == n % 256

ColorBlack == ColorIndex(0)
ColorWhite == ColorIndex(7)

\* To256 with the red and blue channels exchanged
To256_Swapped(c) ==
    IF c.mode # ColorModeTrueColor THEN c
    ELSE ColorIndex(U8(16 + 36 * ((c.b * 6) \div 256) + 6 * ((c.g * 6) \div 256)
                          + ((c.r * 6) \div 256)))

\* To256 without the early return of line 88
To256_NoGuard(c) ==
    ColorIndex(U8(16 + 36 * ((c.r * 6) \div 256) + 6 * ((c.g * 6) \div 256)
                     + ((c.b * 6) \div 256)))

\* Color.To256()
To256(c) ==
    IF c.mode # ColorModeTrueColor THEN c
    ELSE LET r == (c.r * 6) \div 256
             g1 == (c.g * 6) \div 256
             b == (c.b * 6) \div 256
         IN ColorIndex(U8(16 + 36 * r + 6 * g1 + b))

\* To16 that leaves the grayscale ramp as it is
To16_KeepGray(c) ==
    IF c.mode = ColorMode16 THEN c
    ELSE LET col == IF c.mode = ColorModeTrueColor THEN To256(c) ELSE c
             idx == col.index
         IN IF idx < 16 \/ idx >= 232 THEN col ELSE ColorIndex(idx % 8)

\* To16 mapping the cube onto all 16 colors
To16_Mod16(c) ==
    IF c.mode = ColorMode16 THEN c
    ELSE LET col == IF c.mode = ColorModeTrueColor THEN To256(c) ELSE c
             idx == col.index
         IN IF idx < 16 THEN col
            ELSE IF idx >= 232
                 THEN IF idx < 244 THEN ColorBlack ELSE ColorWhite
            ELSE ColorIndex(idx % 16)

\* Color.To16()
To16(c) ==
    IF c.mode = ColorMode16 THEN c
    ELSE LET col == IF c.mode = ColorModeTrueColor THEN To256(c) ELSE c
             idx == col.index
         IN IF idx < 16 THEN col
            ELSE IF idx >= 232
                 THEN IF idx < 244 THEN ColorBlack ELSE ColorWhite
            ELSE ColorIndex(idx % 8)

\* ansiCode with the bright colors numbered as the basic ones
AnsiCode_NoBright(c, fg) ==
    IF c.mode = ColorModeDefault THEN Token("sgr", <<IF fg THEN 39 ELSE 49>>)
    ELSE IF c.mode = ColorMode16 THEN Token("sgr", <<U8((IF fg THEN 30 ELSE 40) + c.index)>>)
    ELSE IF c.mode = ColorMode256 THEN Token("sgr", <<IF fg THEN 38 ELSE 48, 5, c.index>>)
    ELSE Token("sgr", <<IF fg THEN 38 ELSE 48, 2, c.r, c.g, c.b>>)

\* Color.ansiCode(fg)
AnsiCode(c, fg) ==
    IF c.mode = ColorModeDefault THEN Token("sgr", <<IF fg THEN 39 ELSE 49>>)
    ELSE IF c.mode = ColorMode16 THEN
        IF fg
        THEN IF c.index < 8
             THEN Token("sgr", <<U8(30 + c.index)>>)
             ELSE Token("sgr", <<U8(U8(90 + c.index) - 8)>>)
        ELSE IF c.index < 8
             THEN Token("sgr", <<U8(40 + c.index)>>)
             ELSE Token("sgr", <<U8(U8(100 + c.index) - 8)>>)
    ELSE IF c.mode = ColorMode256 THEN
        Token("sgr", <<IF fg THEN 38 ELSE 48, 5, c.index>>)
    ELSE IF c.mode = ColorModeTrueColor THEN
        Token("sgr", <<IF fg THEN 38 ELSE 48, 2, c.r, c.g, c.b>>)
    ELSE Token("sgr", <<>>)

\* Style.Has(flag), flag being bit k
HasBit(style, k) == (style \div (2 ^ k)) % 2 = 1

\* Set that replaces the style by the flag
StyleSet_Replace(style, k) == 2 ^ k

\* Style.Set(flag), Style.Clear(flag), Style.Toggle(flag), flag being bit k
StyleSet(style, k) == IF HasBit(style, k) THEN style ELSE style + 2 ^ k
StyleClear(style, k) == IF HasBit(style, k) THEN style - 2 ^ k ELSE style
StyleToggle(style, k) == IF HasBit(style, k) THEN style - 2 ^ k ELSE style + 2 ^ k

\* Style.ansiCode(): one SGR parameter per flag that is set, in flag order
RECURSIVE StyleParams(_, _)
StyleParams(style, k) ==
    IF k > 8 THEN <<>>
    ELSE (IF HasBit(style, k) THEN <<k + 1>> ELSE <<>>) \o StyleParams(style, k + 1)

StyleAnsiCode(style) == Token("sgr", StyleParams(style, 0))

(***************************************************************************)
(* Show, one write to the sink at a time.  l holds Show's local variables  *)
(* (y, x, cell, attr: lastFg, lastBg, lastStyle, needsReset; out: what the *)
(* sink has received) and l.pc the write it does next.                     *)
(***************************************************************************)
\* the condition without its comparison of the foreground
AttrChanged_NoFg(cell, attr) ==
    \/ cell.Bg # attr.bg
    \/ cell.Style # attr.style
    \/ attr.needsReset

\* the condition of line 159
AttrChanged(cell, attr) ==
    \/ cell.Fg # attr.fg
    \/ cell.Bg # attr.bg
    \/ cell.Style # attr.style
    \/ attr.needsReset

\* the walk with a CR LF after the last row too
ShowGoto_CrlfEveryRow(l, y, x, w, h, cs) ==
    IF y >= h THEN [l EXCEPT !.pc = "Show_final", !.y = y, !.x = x]
    ELSE IF x >= w THEN [l EXCEPT !.pc = "Show_crlf", !.y = y, !.x = x]
    ELSE LET cell == cs[Idx(x, y, w) + 1]
         IN [l EXCEPT !.pc = IF AttrChanged(cell, l.attr) THEN "Show_reset" ELSE "Show_ch",
                      !.y = y, !.x = x, !.cell = cell]

\* the loops stand at row y, column x: the write that comes next
ShowGoto(l, y, x, w, h, cs) ==
    IF y >= h THEN [l EXCEPT !.pc = "Show_final", !.y = y, !.x = x]
    ELSE IF x >= w THEN
        IF y < h - 1
        THEN [l EXCEPT !.pc = "Show_crlf", !.y = y, !.x = x]
        ELSE [l EXCEPT !.pc = "Show_final", !.y = y + 1, !.x = 0]
    ELSE IF Idx(x, y, w) < 0 \/ Idx(x, y, w) >= Len(cs)
         THEN [l EXCEPT !.pc = "panic", !.y = y, !.x = x]
    ELSE LET cell == cs[Idx(x, y, w) + 1]
         IN [l EXCEPT !.pc = IF AttrChanged(cell, l.attr) THEN "Show_reset" ELSE "Show_ch",
                      !.y = y, !.x = x, !.cell = cell]

\* lines 186-189, then the character
ShowAfterStyle(l) ==
    [l EXCEPT !.pc = "Show_ch",
              !.attr = [fg |-> l.cell.Fg, bg |-> l.cell.Bg, style |-> l.cell.Style,
                        needsReset |-> FALSE]]

ShowAfterBg(l) ==
    IF l.cell.Style # StyleNone THEN [l EXCEPT !.pc = "Show_style"] ELSE ShowAfterStyle(l)

ShowAfterFg(l) ==
    IF l.cell.Bg.mode # ColorModeDefault THEN [l EXCEPT !.pc = "Show_bg"] ELSE ShowAfterBg(l)

\* the foreground never written
ShowAfterReset_NoFg(l) == ShowAfterFg(l)

\* line 166, after the reset
ShowAfterReset(l) ==
    IF l.cell.Fg.mode # ColorModeDefault THEN [l EXCEPT !.pc = "Show_fg"] ELSE ShowAfterFg(l)

ShowPcs ==
    {"Show_home", "Show_reset", "Show_fg", "Show_bg", "Show_style", "Show_ch",
     "Show_crlf", "Show_final"}

\* the token the write at l.pc sends
ShowToken(l) ==
    CASE l.pc = "Show_home" -> Token("home", <<>>)
      [] l.pc = "Show_reset" -> Token("sgr", <<0>>)
      [] l.pc = "Show_fg" -> AnsiCode(l.cell.Fg, TRUE)
      [] l.pc = "Show_bg" -> AnsiCode(l.cell.Bg, FALSE)
      [] l.pc = "Show_style" -> StyleAnsiCode(l.cell.Style)
      [] l.pc = "Show_ch" -> Token("ch", <<l.cell.Ch>>)
      [] l.pc = "Show_crlf" -> Token("crlf", <<>>)
      [] l.pc = "Show_final" -> Token("sgr", <<0>>)

\* the write at l.pc succeeds: Show's state at its next write
ShowStep(l, w, h, cs) ==
    LET m == [l EXCEPT !.out = Append(l.out, ShowToken(l))]
    IN CASE l.pc = "Show_home" -> ShowGoto(m, 0, 0, w, h, cs)
         [] l.pc = "Show_reset" -> ShowAfterReset(m)
         [] l.pc = "Show_fg" -> ShowAfterFg(m)
         [] l.pc = "Show_bg" -> ShowAfterBg(m)
         [] l.pc = "Show_style" -> ShowAfterStyle(m)
         [] l.pc = "Show_ch" -> ShowGoto(m, l.y, l.x + 1, w, h, cs)
         [] l.pc = "Show_crlf" -> ShowGoto(m, l.y + 1, 0, w, h, cs)
         [] l.pc = "Show_final" -> [m EXCEPT !.pc = "RUnlock"]

\* the text of the error Show returns when the write at l.pc fails
ShowMessage(l) ==
    CASE l.pc = "Show_home" -> "failed to move cursor"
      [] l.pc = "Show_reset" -> "failed to reset attributes"
      [] l.pc = "Show_fg" -> "failed to set foreground color"
      [] l.pc = "Show_bg" -> "failed to set background color"
      [] l.pc = "Show_style" -> "failed to set style"
      [] l.pc = "Show_ch" -> "failed to write character"
      [] l.pc = "Show_crlf" -> "failed to write newline"
      [] l.pc = "Show_final" -> "failed to reset final attributes"

\* Show going on to its next write with the error in hand
ShowError_Continue(l, e) == [l EXCEPT !.err = Errorf(ShowMessage(l), e)]

\* Show returning the error past its deferred RUnlock
ShowError_NoUnlock(l, e) == [l EXCEPT !.pc = "idle", !.err = Errorf(ShowMessage(l), e)]

\* the write at l.pc fails with e: Show returns the error
ShowError(l, e) == [l EXCEPT !.pc = "RUnlock", !.err = Errorf(ShowMessage(l), e)]

\* what a Show whose writes all succeed sends for the buffer b
RECURSIVE ShowRun(_, _)
ShowRun(l, b) ==
    IF l.pc \notin ShowPcs THEN l.out
    ELSE ShowRun(ShowStep(l, b.width, b.height, b.cells), b)

Render(b) == ShowRun([Idle EXCEPT !.pc = "Show_home", !.op = "Show"], b)

(***************************************************************************)
(* SpecConc: the goroutines of Procs call the Screen's operations          *)
(* concurrently.  A step is one operation on s.mu, one access to the       *)
(* Screen's fields under the lock, or one write to the sink.               *)
(***************************************************************************)
\* the first Screen, and a construction that panics
ConcStart == {<<2, 2>>, <<0, 1>>}

\* the dimensions the goroutines resize to
ConcDims == {<<1, 1>>, <<1, 2>>, <<2, 2>>, <<0, 2>>}

\* the coordinates the goroutines read and write
ConcPoints == {<<0, 0>>, <<1, 0>>, <<1, 1>>}

\* the cell a goroutine writes and the string it draws ("AA", "éé") at (0, 1)
CellOf(p) == NewCell(IF p = "g1" THEN 65 ELSE 233, TextFg, TextBg, TextStyle)
TextOf(p) == IF p = "g1" THEN <<65, 65>> ELSE <<195, 169, 195, 169>>

NoCall == Call("", 0, 0, DefaultCell, <<>>, <<0, 0>>)

\* Lock that does not wait for the writer that is in
MayAnnounce_Any(m) == TRUE

\* sync.RWMutex: Lock first closes the lock to later readers and writers ...
MayAnnounce(m) == m.w = "none"

\* Lock that does not wait for the readers
MayEnter_NoWait(m, p) == m.w = p

\* ... and returns when the readers that were in have left
MayEnter(m, p) == m.w = p /\ m.r = {}

\* RLock that does not look for writers
MayRLock_Any(m) == TRUE

\* RLock returns unless a writer holds the lock or waits for it
MayRLock(m) == m.w = "none"

InitConc ==
    \E d \in ConcStart :
        LET s == NewScreen(d[1], d[2])
        IN /\ fault = IF s.panic THEN "invalid screen dimensions" ELSE "none"
           /\ width = s.width
           /\ height = s.height
           /\ cells = s.cells
           /\ last = NoCall
           /\ mu = Unlocked
           /\ g = [p \in Procs |-> Idle]
           /\ abs = Buffer(s.width, s.height, s.cells)
           /\ ExtAtRest

Running(p, pc) == fault = "none" /\ g[p].pc = pc

\* the calls
CallSize(p) ==
    /\ Running(p, "idle")
    /\ g' = [g EXCEPT ![p] = [Idle EXCEPT !.pc = "RLock", !.op = "Size"]]
    /\ UNCHANGED <<fault, scr, last, mu, abs>>
    /\ UNCHANGED ext

CallGetCell(p, x, y) ==
    /\ Running(p, "idle")
    /\ g' = [g EXCEPT ![p] = [Idle EXCEPT !.pc = "RLock", !.op = "GetCell", !.x = x, !.y = y]]
    /\ UNCHANGED <<fault, scr, last, mu, abs>>
    /\ UNCHANGED ext

CallShow(p) ==
    /\ Running(p, "idle")
    /\ g' = [g EXCEPT ![p] = [Idle EXCEPT !.pc = "RLock", !.op = "Show"]]
    /\ UNCHANGED <<fault, scr, last, mu, abs>>
    /\ UNCHANGED ext

CallSetCell(p, x, y, cell) ==
    /\ Running(p, "idle")
    /\ g' = [g EXCEPT ![p] = [Idle EXCEPT !.pc = "Lock", !.op = "SetCell",
                                          !.x = x, !.y = y, !.cell = cell]]
    /\ UNCHANGED <<fault, scr, last, mu, abs>>
    /\ UNCHANGED ext

CallClear(p) ==
    /\ Running(p, "idle")
    /\ g' = [g EXCEPT ![p] = [Idle EXCEPT !.pc = "Lock", !.op = "Clear"]]
    /\ UNCHANGED <<fault, scr, last, mu, abs>>
    /\ UNCHANGED ext

CallResize(p, w, h) ==
    /\ Running(p, "idle")
    /\ g' = [g EXCEPT ![p] = [Idle EXCEPT !.pc = "Lock", !.op = "Resize", !.x = w, !.y = h]]
    /\ UNCHANGED <<fault, scr, last, mu, abs>>
    /\ UNCHANGED ext

\* DrawText, line 92: runes := []rune(text)
CallDrawText(p, x, y, text, fg, bg, style) ==
    /\ Running(p, "idle")
    /\ g' = [g EXCEPT ![p] = [Idle EXCEPT !.pc = "DrawText", !.op = "DrawText",
                                          !.x = x, !.y = y, !.runes = Runes(text),
                                          !.attr = [fg |-> fg, bg |-> bg, style |-> style,
                                                    needsReset |-> FALSE]]]
    /\ UNCHANGED <<fault, scr, last, mu, abs>>
    /\ UNCHANGED ext

\* DrawText, lines 93-95: the next rune's cell and the call of SetCell, or the return
DrawTextLoop(p) ==
    /\ Running(p, "DrawText")
    /\ LET l == g[p]
       IN g' = [g EXCEPT ![p] =
                  IF l.i < Len(l.runes)
                  THEN [l EXCEPT !.pc = "Lock",
                                 !.cell = NewCell(l.runes[l.i + 1], l.attr.fg, l.attr.bg,
                                                  l.attr.style)]
                  ELSE Idle]
    /\ UNCHANGED <<fault, scr, last, mu, abs>>
    /\ UNCHANGED ext

\* s.mu.RLock()
RLock(p) ==
    /\ Running(p, "RLock")
    /\ MayRLock(mu)
    /\ mu' = [mu EXCEPT !.r = @ \cup {p}]
    /\ g' = [g EXCEPT ![p].pc = CASE g[p].op = "Size" -> "Size_w"
                                  [] g[p].op = "GetCell" -> "GetCell"
                                  [] g[p].op = "Show" -> "Show_home",
                      ![p].snap = IF g[p].op = "Show" THEN <<Buffer(width, height, cells)>>
                                  ELSE <<>>]
    /\ UNCHANGED <<fault, scr, last, abs>>
    /\ UNCHANGED ext

\* s.mu.RUnlock(), deferred: the call returns
RUnlock(p) ==
    /\ Running(p, "RUnlock")
    /\ mu' = [mu EXCEPT !.r = @ \ {p}]
    /\ g' = [g EXCEPT ![p] = Idle]
    /\ UNCHANGED <<fault, scr, last, abs>>
    /\ UNCHANGED ext

\* s.mu.Lock() begins
LockAnnounce(p) ==
    /\ Running(p, "Lock")
    /\ MayAnnounce(mu)
    /\ mu' = [mu EXCEPT !.w = p]
    /\ g' = [g EXCEPT ![p].pc = "LockWait"]
    /\ UNCHANGED <<fault, scr, last, abs>>
    /\ UNCHANGED ext

\* s.mu.Lock() returns
LockEnter(p) ==
    /\ Running(p, "LockWait")
    /\ MayEnter(mu, p)
    /\ g' = [g EXCEPT ![p].pc = CASE g[p].op = "Clear" -> "Clear"
                                  [] g[p].op = "Resize" -> "Resize"
                                  [] OTHER -> "SetCell"]
    /\ UNCHANGED <<fault, scr, last, mu, abs>>
    /\ UNCHANGED ext

\* a DrawText that keeps the lock until its last character is set
Unlock_Held(p) ==
    /\ Running(p, "Unlock")
    /\ mu' = IF g[p].op = "DrawText" /\ g[p].i + 1 < Len(g[p].runes)
             THEN mu
             ELSE [mu EXCEPT !.w = "none"]
    /\ g' = [g EXCEPT ![p] = IF g[p].op = "DrawText"
                             THEN [g[p] EXCEPT !.pc = "DrawText", !.i = @ + 1]
                             ELSE Idle]
    /\ UNCHANGED <<fault, scr, last, abs>>
    /\ UNCHANGED ext

\* s.mu.Unlock(), deferred: the call returns, SetCell to DrawText's loop if
\* DrawText called it
Unlock(p) ==
    /\ Running(p, "Unlock")
    /\ mu' = [mu EXCEPT !.w = "none"]
    /\ g' = [g EXCEPT ![p] = IF g[p].op = "DrawText"
                             THEN [g[p] EXCEPT !.pc = "DrawText", !.i = @ + 1]
                             ELSE Idle]
    /\ UNCHANGED <<fault, scr, last, abs>>
    /\ UNCHANGED ext

\* Size, line 49: s.width, then s.height
SizeWidth(p) ==
    /\ Running(p, "Size_w")
    /\ g' = [g EXCEPT ![p].pc = "Size_h", ![p].x = width]
    /\ UNCHANGED <<fault, scr, last, mu, abs>>
    /\ UNCHANGED ext

SizeHeight(p) ==
    /\ Running(p, "Size_h")
    /\ g' = [g EXCEPT ![p].pc = "RUnlock", ![p].y = height]
    /\ UNCHANGED <<fault, scr, last, mu, abs>>
    /\ UNCHANGED ext

IndexOK(i, cs) == 0 <= i /\ i < Len(cs)

\* GetCell, lines 71-75
GetCellBody(p) ==
    /\ Running(p, "GetCell")
    /\ LET l == g[p]
       IN IF OutOfBounds(l.x, l.y, width, height)
          THEN /\ g' = [g EXCEPT ![p].pc = "RUnlock",
                                 ![p].cell = NewCell(32, ColorDefault, ColorDefault, StyleNone)]
               /\ UNCHANGED fault
          ELSE IF IndexOK(Idx(l.x, l.y, width), cells)
          THEN /\ g' = [g EXCEPT ![p].pc = "RUnlock",
                                 ![p].cell = cells[Idx(l.x, l.y, width) + 1]]
               /\ UNCHANGED fault
          ELSE /\ fault' = "index out of range"
               /\ UNCHANGED g
    /\ UNCHANGED <<scr, last, mu, abs>>
    /\ UNCHANGED ext

\* SetCell, lines 58-62; called by DrawText, x is x+i
SetCellBody(p) ==
    /\ Running(p, "SetCell")
    /\ LET l == g[p]
           x == l.x + l.i
       IN IF OutOfBounds(x, l.y, width, height)
          THEN UNCHANGED <<fault, cells, abs>>
          ELSE IF IndexOK(Idx(x, l.y, width), cells)
          THEN /\ cells' = SetCellCells(cells, width, height, x, l.y, l.cell)
               /\ abs' = [abs EXCEPT !.cells = SetCellCells(abs.cells, abs.width, abs.height,
                                                           x, l.y, l.cell)]
               /\ UNCHANGED fault
          ELSE /\ fault' = "index out of range"
               /\ UNCHANGED <<cells, abs>>
    /\ g' = [g EXCEPT ![p].pc = "Unlock"]
    /\ UNCHANGED <<width, height, last, mu>>
    /\ UNCHANGED ext

\* Clear, lines 83-86
ClearBody(p) ==
    /\ Running(p, "Clear")
    /\ cells' = Fill(cells)
    /\ abs' = [abs EXCEPT !.cells = Fill(abs.cells)]
    /\ g' = [g EXCEPT ![p].pc = "Unlock"]
    /\ UNCHANGED <<fault, width, height, last, mu>>
    /\ UNCHANGED ext

\* Resize, lines 105-132: the check, newCells and the copy
ResizeBody(p) ==
    /\ Running(p, "Resize")
    /\ LET l == g[p]
       IN IF ResizeRejects(l.x, l.y)
          THEN /\ g' = [g EXCEPT ![p].pc = "Unlock"]
               /\ UNCHANGED fault
          ELSE IF \A y \in 0 .. Min(l.y, height) - 1, x \in 0 .. Min(l.x, width) - 1 :
                      IndexOK(Idx(x, y, width), cells)
          THEN /\ g' = [g EXCEPT ![p].pc = "Resize_w",
                                 ![p].newCells = ResizeCells(cells, width, height, l.x, l.y)]
               /\ UNCHANGED fault
          ELSE /\ fault' = "index out of range"
               /\ UNCHANGED g
    /\ UNCHANGED <<scr, last, mu, abs>>
    /\ UNCHANGED ext

\* Resize, line 134
ResizeWidth(p) ==
    /\ Running(p, "Resize_w")
    /\ width' = g[p].x
    /\ g' = [g EXCEPT ![p].pc = "Resize_h"]
    /\ UNCHANGED <<fault, height, cells, last, mu, abs>>
    /\ UNCHANGED ext

\* Resize, line 135
ResizeHeight(p) ==
    /\ Running(p, "Resize_h")
    /\ height' = g[p].y
    /\ g' = [g EXCEPT ![p].pc = "Resize_cells"]
    /\ UNCHANGED <<fault, width, cells, last, mu, abs>>
    /\ UNCHANGED ext

\* Resize, line 136
ResizeSwap(p) ==
    /\ Running(p, "Resize_cells")
    /\ cells' = g[p].newCells
    /\ abs' = Buffer(g[p].x, g[p].y,
                     ResizeCells(abs.cells, abs.width, abs.height, g[p].x, g[p].y))
    /\ g' = [g EXCEPT ![p].pc = "Unlock"]
    /\ UNCHANGED <<fault, width, height, last, mu>>
    /\ UNCHANGED ext

\* Show: the next write to the sink succeeds
ShowWrite(p) ==
    /\ fault = "none"
    /\ g[p].pc \in ShowPcs
    /\ LET l == ShowStep(g[p], width, height, cells)
       IN IF l.pc = "panic"
          THEN fault' = "index out of range" /\ UNCHANGED g
          ELSE g' = [g EXCEPT ![p] = l] /\ UNCHANGED fault
    /\ UNCHANGED <<scr, last, mu, abs>>
    /\ UNCHANGED ext

\* Show: the next write to the sink fails with e
ShowFail(p, e) ==
    /\ fault = "none"
    /\ g[p].pc \in ShowPcs
    /\ g' = [g EXCEPT ![p] = ShowError(g[p], e)]
    /\ UNCHANGED <<fault, scr, last, mu, abs>>
    /\ UNCHANGED ext

NextConc ==
    \E p \in Procs :
        \/ CallSize(p)
        \/ \E pt \in ConcPoints : CallGetCell(p, pt[1], pt[2])
        \/ CallShow(p)
        \/ \E pt \in ConcPoints : CallSetCell(p, pt[1], pt[2], CellOf(p))
        \/ CallClear(p)
        \/ \E d \in ConcDims : CallResize(p, d[1], d[2])
        \/ CallDrawText(p, 0, 1, TextOf(p), TextFg, TextBg, TextStyle)
        \/ DrawTextLoop(p)
        \/ RLock(p)
        \/ RUnlock(p)
        \/ LockAnnounce(p)
        \/ LockEnter(p)
        \/ Unlock(p)
        \/ SizeWidth(p)
        \/ SizeHeight(p)
        \/ GetCellBody(p)
        \/ SetCellBody(p)
        \/ ClearBody(p)
        \/ ResizeBody(p)
        \/ ResizeWidth(p)
        \/ ResizeHeight(p)
        \/ ResizeSwap(p)
        \/ ShowWrite(p)
        \/ \E e \in SinkErrors : ShowFail(p, e)

SpecConc == InitConc /\ [][NextConc]_vars

\* a step of a call that p has begun, other than the acquiring of s.mu; a
\* write to the sink returns, with or without an error
Step(p) ==
    \/ DrawTextLoop(p)
    \/ RUnlock(p)
    \/ LockEnter(p)
    \/ Unlock(p)
    \/ SizeWidth(p)
    \/ SizeHeight(p)
    \/ GetCellBody(p)
    \/ SetCellBody(p)
    \/ ClearBody(p)
    \/ ResizeBody(p)
    \/ ResizeWidth(p)
    \/ ResizeHeight(p)
    \/ ResizeSwap(p)
    \/ ShowWrite(p)
    \/ \E e \in SinkErrors : ShowFail(p, e)

\* a goroutine that can run does run; sync.RWMutex hands the lock to a
\* goroutine that waits for it (a waiting Lock keeps later readers out, the
\* readers that wait are let in at Unlock, a starved waiter is handed the
\* lock), so a goroutine that can take the lock again and again does take it
FairConc ==
    \A p \in Procs :
        /\ WF_vars(Step(p))
        /\ SF_vars(RLock(p))
        /\ SF_vars(LockAnnounce(p))

\* SpecLive: the calls of SpecConc on Screens of one row, under that
\* scheduling
LiveStart == {<<1, 1>>, <<2, 1>>}
LiveDims == {<<1, 1>>, <<2, 1>>, <<0, 1>>}
LivePoints == {<<0, 0>>, <<1, 0>>}

InitLive ==
    \E d \in LiveStart :
        LET s == NewScreen(d[1], d[2])
        IN /\ fault = "none"
           /\ width = s.width
           /\ height = s.height
           /\ cells = s.cells
           /\ last = NoCall
           /\ mu = Unlocked
           /\ g = [p \in Procs |-> Idle]
           /\ abs = Buffer(s.width, s.height, s.cells)
           /\ ExtAtRest

NextLive ==
    \E p \in Procs :
        \/ CallSize(p)
        \/ \E pt \in LivePoints : CallGetCell(p, pt[1], pt[2])
        \/ CallShow(p)
        \/ \E pt \in LivePoints : CallSetCell(p, pt[1], pt[2], CellOf(p))
        \/ CallClear(p)
        \/ \E d \in LiveDims : CallResize(p, d[1], d[2])
        \/ CallDrawText(p, 0, 0, TextOf(p), TextFg, TextBg, TextStyle)
        \/ Step(p)
        \/ RLock(p)
        \/ LockAnnounce(p)

SpecLive == InitLive /\ [][NextLive]_vars /\ FairConc

(***************************************************************************)
(* SpecColor: the colors a program can hold.  It constructs a Color; a     *)
(* step calls To256, To16 or ansiCode on the Color the call before gave.   *)
(***************************************************************************)
\* uint8
Bytes == 0 .. 255

\* one channel value for each coordinate of the 6x6x6 cube
CubeSteps == {0, 43, 86, 128, 171, 255}

\* the arguments of ColorRGB: every color whose channels are in CubeSteps,
\* and every value of each channel with the other two at 0 or 255
RGBs ==
    (CubeSteps \X CubeSteps \X CubeSteps)
        \cup (Bytes \X {0, 255} \X {0, 255})
        \cup ({0, 255} \X Bytes \X {0, 255})
        \cup ({0, 255} \X {0, 255} \X Bytes)

ColorOp(op, c, fg, out, code) == [op |-> op, c |-> c, fg |-> fg, out |-> out, code |-> code]

\* a program's first Color: ColorDefault(), ColorRGB(r, g, b) or ColorIndex(i)
InitColor ==
    /\ \/ colorOp = ColorOp("ColorDefault", ColorDefault, FALSE, ColorDefault, <<>>)
       \/ \E c \in RGBs :
             colorOp = ColorOp("ColorRGB", ColorDefault, FALSE, ColorRGB(c[1], c[2], c[3]), <<>>)
       \/ \E i \in Bytes :
             colorOp = ColorOp("ColorIndex", ColorDefault, FALSE, ColorIndex(i), <<>>)
    /\ styleOp = NoStyleOp
    /\ tty = NoTty
    /\ fault = "none"
    /\ width = 0
    /\ height = 0
    /\ cells = <<>>
    /\ last = NoCall
    /\ mu = Unlocked
    /\ g = [p \in Procs |-> Idle]
    /\ abs = Buffer(0, 0, <<>>)

CallTo256 ==
    /\ colorOp' = ColorOp("To256", colorOp.out, FALSE, To256(colorOp.out), <<>>)
    /\ UNCHANGED <<fault, scr, last, conc, styleOp, tty>>

CallTo16 ==
    /\ colorOp' = ColorOp("To16", colorOp.out, FALSE, To16(colorOp.out), <<>>)
    /\ UNCHANGED <<fault, scr, last, conc, styleOp, tty>>

CallAnsiCode(fg) ==
    /\ colorOp' = ColorOp("ansiCode", colorOp.out, fg, colorOp.out, <<AnsiCode(colorOp.out, fg)>>)
    /\ UNCHANGED <<fault, scr, last, conc, styleOp, tty>>

NextColor ==
    \/ CallTo256
    \/ CallTo16
    \/ CallAnsiCode(TRUE)
    \/ CallAnsiCode(FALSE)

SpecColor == InitColor /\ [][NextColor]_vars

(***************************************************************************)
(* SpecStyle: the styles a program can hold.  It starts from StyleNone; a  *)
(* step calls Set, Clear, Toggle or Has on the Style the call before gave. *)
(***************************************************************************)
\* the flags, by their bit: StyleBold is 0, StyleStrikethrough is 8
Flags == 0 .. 8

StyleOp(op, s, flag, out, has) == [op |-> op, s |-> s, flag |-> flag, out |-> out, has |-> has]

InitStyle ==
    /\ styleOp = NoStyleOp
    /\ colorOp = NoColorOp
    /\ tty = NoTty
    /\ fault = "none"
    /\ width = 0
    /\ height = 0
    /\ cells = <<>>
    /\ last = NoCall
    /\ mu = Unlocked
    /\ g = [p \in Procs |-> Idle]
    /\ abs = Buffer(0, 0, <<>>)

CallStyleSet(k) ==
    /\ styleOp' = StyleOp("Set", styleOp.out, k, StyleSet(styleOp.out, k), FALSE)
    /\ UNCHANGED <<fault, scr, last, conc, colorOp, tty>>

CallStyleClear(k) ==
    /\ styleOp' = StyleOp("Clear", styleOp.out, k, StyleClear(styleOp.out, k), FALSE)
    /\ UNCHANGED <<fault, scr, last, conc, colorOp, tty>>

CallStyleToggle(k) ==
    /\ styleOp' = StyleOp("Toggle", styleOp.out, k, StyleToggle(styleOp.out, k), FALSE)
    /\ UNCHANGED <<fault, scr, last, conc, colorOp, tty>>

CallStyleHas(k) ==
    /\ styleOp' = StyleOp("Has", styleOp.out, k, styleOp.out, HasBit(styleOp.out, k))
    /\ UNCHANGED <<fault, scr, last, conc, colorOp, tty>>

NextStyle ==
    \E k \in Flags :
        \/ CallStyleSet(k)
        \/ CallStyleClear(k)
        \/ CallStyleToggle(k)
        \/ CallStyleHas(k)

SpecStyle == InitStyle /\ [][NextStyle]_vars

(***************************************************************************)
(* SpecTerm: Init and Close on the terminal of stdout.  tty holds the      *)
(* terminal (isTerminal; mode, the termios settings; found, the mode       *)
(* before Init; cursor, whether it is shown), the locals of Init and the   *)
(* Screen's terminal fields (size, fd, oldState, cause: the error of the   *)
(* first write) and what the call at work did (restores: its calls of      *)
(* term.Restore; rerr: what the last of them returned; err: the error the  *)
(* call returned).  A step is one call of the platform.                    *)
(***************************************************************************)
\* the errors of the platform's calls
ENOTTY == New("inappropriate ioctl for device")
PlatformErrors == {EIO, ENOTTY}

\* a platform call returns nil or an error
Outcomes == {Nil} \cup PlatformErrors

\* the sizes term.GetSize reports
TermSizes == {d \in Dims : d[1] >= 0}

\* the termios settings the terminal may have when the program starts
Modes == {"cooked", "cbreak"}

\* term.MakeRaw(fd) returning nil: the state it returns, and raw mode
TermMakeRaw(t) == [t EXCEPT !.oldState = t.mode, !.mode = "raw"]

\* no call of term.Restore
TermRestore_Skipped(t, e) == t

\* term.Restore(fd, oldState) returning e
TermRestore(t, e) ==
    [t EXCEPT !.mode = IF e = Nil THEN t.oldState ELSE @,
              !.restores = @ + 1,
              !.rerr = e]

\* what Close returns when term.Restore returned e
CloseError(e) == e

InitTerm ==
    /\ \E m \in Modes, it \in BOOLEAN :
          tty = [NoTty EXCEPT !.pc = "start", !.isTerminal = it, !.mode = m, !.found = m]
    /\ colorOp = NoColorOp
    /\ styleOp = NoStyleOp
    /\ fault = "none"
    /\ width = 0
    /\ height = 0
    /\ cells = <<>>
    /\ last = NoCall
    /\ mu = Unlocked
    /\ g = [p \in Procs |-> Idle]
    /\ abs = Buffer(0, 0, <<>>)

\* Init, line 233
CallInit ==
    /\ tty.pc = "start"
    /\ tty' = [tty EXCEPT !.pc = "Init_IsTerminal", !.fd = 1]
    /\ UNCHANGED <<fault, scr, last, conc, colorOp, styleOp>>

\* Init, lines 236-238
InitIsTerminal ==
    /\ tty.pc = "Init_IsTerminal"
    /\ tty' = IF tty.isTerminal
              THEN [tty EXCEPT !.pc = "Init_GetSize"]
              ELSE [tty EXCEPT !.pc = "Init_failed", !.err = ErrNotATerminal]
    /\ UNCHANGED <<fault, scr, last, conc, colorOp, styleOp>>

\* Init, lines 241-244: term.GetSize returns the size d
InitGetSize(d) ==
    /\ tty.pc = "Init_GetSize"
    /\ tty' = [tty EXCEPT !.pc = "Init_MakeRaw", !.size = d]
    /\ UNCHANGED <<fault, scr, last, conc, colorOp, styleOp>>

\* Init, lines 241-244: term.GetSize returns the error e
InitGetSizeFails(e) ==
    /\ tty.pc = "Init_GetSize"
    /\ tty' = [tty EXCEPT !.pc = "Init_failed", !.err = ErrorfV(ErrTerminalSetupFailed, "", e)]
    /\ UNCHANGED <<fault, scr, last, conc, colorOp, styleOp>>

\* Init, lines 247-250: term.MakeRaw returns e
InitMakeRaw(e) ==
    /\ tty.pc = "Init_MakeRaw"
    /\ tty' = IF e = Nil
              THEN [TermMakeRaw(tty) EXCEPT !.pc = "Init_NewScreen"]
              ELSE [tty EXCEPT !.pc = "Init_failed",
                               !.err = ErrorfV(ErrTerminalSetupFailed, "", e)]
    /\ UNCHANGED <<fault, scr, last, conc, colorOp, styleOp>>

\* Init, lines 252-254
InitNewScreen ==
    /\ tty.pc = "Init_NewScreen"
    /\ LET s == NewScreen(tty.size[1], tty.size[2])
       IN /\ fault' = IF s.panic THEN "invalid screen dimensions" ELSE "none"
          /\ width' = s.width
          /\ height' = s.height
          /\ cells' = s.cells
          /\ tty' = [tty EXCEPT !.pc = IF s.panic THEN "panic" ELSE "Init_Write"]
    /\ UNCHANGED <<last, conc, colorOp, styleOp>>

\* Init, lines 257-263: the write of ESC[2J ESC[H ESC[?25l returns e
InitWrite(e) ==
    /\ tty.pc = "Init_Write"
    /\ tty' = IF e = Nil
              THEN [tty EXCEPT !.pc = "ready", !.cursor = FALSE]
              ELSE [tty EXCEPT !.pc = "Init_Restore", !.cause = e]
    /\ UNCHANGED <<fault, scr, last, conc, colorOp, styleOp>>

\* Init, lines 259-260: term.Restore returns e, which is dropped
InitRestore(e) ==
    /\ tty.pc = "Init_Restore"
    /\ tty' = [TermRestore(tty, e) EXCEPT
                  !.pc = "Init_failed",
                  !.err = ErrorfV(ErrTerminalSetupFailed, "failed to initialize screen", tty.cause)]
    /\ UNCHANGED <<fault, scr, last, conc, colorOp, styleOp>>

\* Close is called on the Screen Init returned
CallClose ==
    /\ tty.pc \in {"ready", "closed"}
    /\ tty' = [tty EXCEPT !.pc = "Close", !.restores = 0, !.rerr = Nil, !.err = Nil]
    /\ UNCHANGED <<fault, scr, last, conc, colorOp, styleOp>>

\* Close, lines 224-227: term.Restore returns e
CloseBody(e) ==
    /\ tty.pc = "Close"
    /\ tty' = IF tty.oldState # "nil" /\ tty.fd > 0
              THEN [TermRestore(tty, e) EXCEPT !.pc = "closed", !.err = CloseError(e)]
              ELSE [tty EXCEPT !.pc = "closed", !.err = Nil]
    /\ UNCHANGED <<fault, scr, last, conc, colorOp, styleOp>>

NextTerm ==
    \/ CallInit
    \/ InitIsTerminal
    \/ \E d \in TermSizes : InitGetSize(d)
    \/ \E e \in PlatformErrors : InitGetSizeFails(e)
    \/ \E e \in Outcomes : InitMakeRaw(e)
    \/ InitNewScreen
    \/ \E e \in Outcomes : InitWrite(e)
    \/ \E e \in Outcomes : InitRestore(e)
    \/ CallClose
    \/ \E e \in Outcomes : CloseBody(e)

SpecTerm == InitTerm /\ [][NextTerm]_vars

(***************************************************************************)
(* SpecShow: one goroutine fills a new Screen cell by cell and calls Show; *)
(* a step is one SetCell, or one step of Show as in SpecConc; each write   *)
(* to the sink succeeds or fails.                                          *)
(***************************************************************************)
\* the cells the Screen is filled with: those of Palette, and 'B' with a
\* foreground of the 256-color palette alone
ShowPalette == Palette \cup {NewCell(66, ColorIndex(200), ColorDefault, StyleNone)}

\* SetCell between two calls of Show
ShowSetCell(p, x, y, cell) ==
    /\ Running(p, "idle")
    /\ cells' = SetCellCells(cells, width, height, x, y, cell)
    /\ UNCHANGED <<fault, width, height, last, conc>>
    /\ UNCHANGED ext

NextShow ==
    \/ \E x \in 0 .. width - 1, y \in 0 .. height - 1, cell \in ShowPalette :
           ShowSetCell("g1", x, y, cell)
    \/ CallShow("g1")
    \/ RLock("g1")
    \/ ShowWrite("g1")
    \/ \E e \in SinkErrors : ShowFail("g1", e)
    \/ RUnlock("g1")

SpecShow == Init /\ [][NextShow]_vars

(***************************************************************************)
(* Properties of Spec.  The coordinates, cells and dimensions they speak   *)
(* of are those of the log; what GetCell and Size return is GetCellOf and  *)
(* <<width, height>>.                                                      *)
(***************************************************************************)
InRange(x, y, w, h) == 0 <= x /\ x < w /\ 0 <= y /\ y < h

IsDefault(c) ==
    /\ c.Ch = 32
    /\ c.Fg.mode = ColorModeDefault
    /\ c.Bg.mode = ColorModeDefault
    /\ c.Style = StyleNone

\* the code points of the strings of Texts
CodePoints(t) ==
    CASE t = <<>> -> <<>>
      [] t = <<65>> -> <<65>>
      [] t = <<195, 169, 65>> -> <<233, 65>>

\* C1: right after SetCell(x, y, c) at an in-range coordinate, whatever ran
\* before (other SetCells at that coordinate included), GetCell(x, y) returns
\* a cell Equal to c.
C1_SetThenGet ==
    (last.op = "SetCell" /\ InRange(last.x, last.y, width, height))
        => Equal(GetCellOf(cells, width, height, last.x, last.y), last.cell)

C1_Witness ==
    /\ last.op = "SetCell"
    /\ width = 2 /\ height = 2
    /\ last.x = 1 /\ last.y = 1
    /\ last.cell.Ch = 233
    /\ cells[1].Ch = 65
    /\ cells[4] = last.cell

C4_Resize ==
    [][(last'.op = "Resize" /\ last'.x > 0 /\ last'.y > 0)
        => /\ <<width', height'>> = <<last'.x, last'.y>>
           /\ Len(cells') = last'.x * last'.y
           /\ \A x \in 0 .. last'.x - 1, y \in 0 .. last'.y - 1 :
                IF x < width /\ y < height
                THEN GetCellOf(cells', width', height', x, y)
                        = GetCellOf(cells, width, height, x, y)
                ELSE IsDefault(GetCellOf(cells', width', height', x, y))]_vars

C4_Witness ==
    /\ last.op = "Resize"
    /\ last.was = <<2, 2>>
    /\ width = 1 /\ height = 3
    /\ cells[1].Ch = 65
    /\ cells[2].Ch = 233
    /\ IsDefault(cells[3])

\* C5: Resize(w, h) with w <= 0 or h <= 0 leaves width, height and every cell
\* as they were.
C5_ResizeRejected ==
    [][(last'.op = "Resize" /\ (last'.x <= 0 \/ last'.y <= 0))
        => (fault' = "none" /\ UNCHANGED <<width, height, cells>>)]_vars

C5_Witness ==
    /\ last.op = "Resize"
    /\ last.x = -1 /\ last.y = 2
    /\ width = 2 /\ height = 2
    /\ \E i \in DOMAIN cells : ~IsDefault(cells[i])

\* C6: after Clear, whatever ran before, GetCell returns the default cell at
\* every in-range coordinate and Size returns what it returned before; a
\* second Clear changes nothing.
C6_Clear ==
    [][last'.op = "Clear"
        => /\ <<width', height'>> = <<width, height>>
           /\ \A x \in 0 .. width - 1, y \in 0 .. height - 1 :
                IsDefault(GetCellOf(cells', width', height', x, y))
           /\ Fill(cells') = cells']_vars

C6_Witness ==
    /\ last.op = "Clear"
    /\ width = 2 /\ height = 2
    /\ last.x = 4
    /\ \A i \in DOMAIN cells : IsDefault(cells[i])

C8_NewScreen ==
    (last.op = "NewScreen" /\ last.x > 0 /\ last.y > 0)
        => /\ fault = "none"
           /\ <<width, height>> = <<last.x, last.y>>
           /\ \A x \in 0 .. last.x - 1, y \in 0 .. last.y - 1 :
                IsDefault(GetCellOf(cells, width, height, x, y))

C8_Witness ==
    /\ last.op = "NewScreen"
    /\ width = 2 /\ height = 2
    /\ Len(cells) = 4

InWrite(p) ==
    g[p].pc \in {"SetCell", "Clear", "Resize", "Resize_w", "Resize_h", "Resize_cells", "Unlock"}

InRead(p) == g[p].pc \in ShowPcs \cup {"Size_w", "Size_h", "GetCell", "RUnlock"}

\* p is between Resize's assignments to s.width and s.cells
Assigning(p) == g[p].pc \in {"Resize_h", "Resize_cells"}

IsPrefix(a, b) == Len(a) <= Len(b) /\ a = SubSeq(b, 1, Len(a))

\* C3: for every Screen that exists, in every state that an interleaving of
\* SetCell, Clear, DrawText, Resize, Show, GetCell and Size reaches, unless a
\* Resize holding the write lock stands between its assignments of lines
\* 134-136: width > 0, height > 0 and the cell array has width*height cells.
C3_Dimensions ==
    (fault # "invalid screen dimensions" /\ \A p \in Procs : ~Assigning(p))
        => /\ width > 0
           /\ height > 0
           /\ Len(cells) = width * height

C3_Witness ==
    \E p \in Procs, q \in Procs :
        /\ g[p].op = "Resize" /\ g[p].pc = "Unlock"
        /\ width = 1 /\ height = 2
        /\ g[q].op = "DrawText" /\ g[q].pc = "Lock" /\ g[q].i = 1
        /\ ~IsDefault(cells[2])

C10_ShowSnapshot ==
    \A p \in Procs :
        (g[p].op = "Show" /\ g[p].pc \in ShowPcs \cup {"RUnlock"})
            => /\ p \in mu.r
               /\ \A q \in Procs : ~InWrite(q)
               /\ Buffer(width, height, cells) = g[p].snap[1]
               /\ IsPrefix(g[p].out, Render(g[p].snap[1]))
               /\ (g[p].pc = "RUnlock" /\ g[p].err = Nil) => g[p].out = Render(g[p].snap[1])

C10_Witness ==
    \E p \in Procs, q \in Procs :
        /\ g[p].op = "Show" /\ g[p].pc = "Show_ch" /\ g[p].y = 1 /\ g[p].x = 1
        /\ g[q].op = "Resize" /\ g[q].pc = "LockWait"
        /\ width = 2 /\ height = 2
        /\ cells[1].Ch = 65

\* C24: DrawText holds the write lock only inside the SetCell of one
\* character: between two characters (in its loop, or waiting in Lock) it
\* holds no lock, inside a SetCell it has set exactly the characters before
\* the current one.  So other calls run between two characters: the witness
\* is a state in which two DrawTexts over the same cells have left a mixture
\* of both strings, C24_ShowsPrefix one in which a Show has rendered a frame
\* holding only a prefix of a string being drawn.
C24_PerCharacter ==
    \A p \in Procs :
        g[p].op = "DrawText"
            => /\ g[p].pc \in {"DrawText", "Lock", "LockWait", "SetCell", "Unlock"}
               /\ g[p].i <= Len(g[p].runes)
               /\ g[p].pc \in {"DrawText", "Lock"} => mu.w # p /\ p \notin mu.r
               /\ g[p].pc \in {"SetCell", "Unlock"} => mu.w = p /\ g[p].i < Len(g[p].runes)

C24_Witness ==
    /\ g["g1"].op = "DrawText" /\ g["g1"].pc = "DrawText" /\ g["g1"].i = 2
    /\ g["g2"].op = "DrawText" /\ g["g2"].pc = "DrawText" /\ g["g2"].i = 2
    /\ width = 2 /\ height = 2
    /\ cells[3].Ch = 233
    /\ cells[4].Ch = 65

C24_ShowsPrefix ==
    /\ g["g2"].op = "DrawText" /\ g["g2"].pc = "Lock" /\ g["g2"].i = 1
    /\ g["g1"].op = "Show" /\ g["g1"].pc = "RUnlock" /\ g["g1"].err = <<>>
    /\ width = 2 /\ height = 2
    /\ g["g1"].snap[1].cells[3].Ch = 233
    /\ IsDefault(g["g1"].snap[1].cells[4])
    /\ g["g1"].out = Render(Buffer(width, height, cells))
    /\ \E n \in 1 .. Len(g["g1"].out) - 1 :
          /\ g["g1"].out[n] = [k |-> "ch", p |-> <<233>>]
          /\ g["g1"].out[n + 1].k = "sgr"

\* p waits for s.mu
Blocked(p) ==
    \/ g[p].pc = "RLock" /\ mu.w # "none"
    \/ g[p].pc = "Lock" /\ mu.w # "none"
    \/ g[p].pc = "LockWait" /\ mu.r # {}

\* C27: a goroutine holds the lock only inside an operation and asks for it
\* only when it does not hold it (exactly the goroutines inside a read
\* section are readers, the writer is a goroutine in Lock or inside a write
\* section), so with no operation in progress the lock is free, also after
\* a Show that returned an I/O error; never do all the goroutines inside an
\* operation wait for the lock; and every call that has begun returns, the
\* sink's writes returning.
C27_Safe ==
    /\ \A p \in Procs :
          /\ p \in mu.r <=> InRead(p)
          /\ mu.w = p <=> (InWrite(p) \/ g[p].pc = "LockWait")
          /\ g[p].pc \in {"idle", "RLock", "Lock", "DrawText"} => mu.w # p /\ p \notin mu.r
    /\ mu.w \in Procs \cup {"none"}
    /\ mu.r \subseteq Procs
    /\ (\A p \in Procs : g[p].pc = "idle") => mu = [w |-> "none", r |-> {}]
    /\ (fault = "none" /\ \E p \in Procs : g[p].pc # "idle")
          => \E p \in Procs : g[p].pc # "idle" /\ ~Blocked(p)

C27_Returns ==
    /\ []C27_Safe
    /\ \A p \in Procs : (g[p].pc # "idle") ~> (g[p].pc = "idle")

C27_Witness ==
    /\ g["g1"].op = "Show" /\ g["g1"].pc = "RUnlock" /\ g["g1"].out # <<>>
    /\ Is(g["g1"].err, EIO)
    /\ mu = [w |-> "g2", r |-> {"g1"}]
    /\ g["g2"].op = "DrawText" /\ g["g2"].pc = "LockWait" /\ g["g2"].i = 1

\* C28: in every interleaving no operation indexes the cell array outside
\* [0, width*height): no access has failed, and whenever a goroutine stands
\* at a bounds check or an index computation (in SetCell, GetCell, Resize's
\* copy or Show's loop) the array has width*height cells, so an in-range
\* coordinate gives an index inside the array.
C28_IndexInRange ==
    /\ fault # "index out of range"
    /\ \A p \in Procs :
          g[p].pc \in ShowPcs \cup {"SetCell", "GetCell", "Resize"}
            => /\ Len(cells) = width * height
               /\ \A x \in 0 .. width - 1, y \in 0 .. height - 1 :
                     0 <= y * width + x /\ y * width + x < Len(cells)
               /\ g[p].pc = "SetCell"
                     => (\/ g[p].x + g[p].i < 0 \/ g[p].y < 0
                         \/ g[p].x + g[p].i >= width \/ g[p].y >= height
                         \/ g[p].y * width + g[p].x + g[p].i < Len(cells))

C28_Witness ==
    \E p \in Procs, q \in Procs :
        /\ g[p].op = "Resize" /\ g[p].pc = "Unlock"
        /\ g[p].x = 1 /\ g[p].y = 1
        /\ width = 1 /\ height = 1 /\ Len(cells) = 1
        /\ g[q].op = "DrawText" /\ g[q].pc = "Lock" /\ g[q].i = 1
        /\ fault = "none"

(***************************************************************************)
(* Properties of SpecShow.                                                 *)
(***************************************************************************)
\* C11: when a write of Show to the sink fails (the cursor move, a reset, a
\* color, a style, a character, a CR LF or the final reset), Show writes
\* nothing more and does not retry, goes to its return with a non-nil error
\* that wraps the sink's error, and the buffer (width, height, every cell)
\* is what it was when Show began.
C11_ShowFails ==
    [][\A p \in Procs :
        (g[p].op = "Show" /\ g'[p].err # <<>>)
            => /\ g'[p].out = g[p].out
               /\ g'[p].pc = "RUnlock"
               /\ \E e \in SinkErrors :
                     /\ SubSeq(g'[p].err, 2, Len(g'[p].err)) = e
                     /\ g'[p].err[1].text # ""
               /\ <<width', height', cells'>> = <<width, height, cells>>
               /\ [width |-> width', height |-> height', cells |-> cells'] = g'[p].snap[1]]_vars

C11_Witness ==
    /\ g["g1"].op = "Show" /\ g["g1"].pc = "RUnlock"
    /\ g["g1"].err = <<[text |-> "failed to write newline", v |-> <<>>]>> \o EPIPE
    /\ width = 2 /\ height = 2
    /\ cells[1].Ch = 65 /\ cells[2].Ch = 66
    /\ Len(g["g1"].out) > 2
    /\ g["g1"].out[Len(g["g1"].out)] = [k |-> "ch", p |-> <<66>>]

\* the characters of the rows y .. h-1 of a w x h cell array, a CR LF
\* between two rows
RECURSIVE Rows(_, _, _, _)
Rows(cs, w, h, y) ==
    IF y >= h THEN <<>>
    ELSE [x \in 1 .. w |-> [k |-> "ch", p |-> <<cs[y * w + x].Ch>>]]
            \o (IF y < h - 1 THEN <<[k |-> "crlf", p |-> <<>>]>> ELSE <<>>)
            \o Rows(cs, w, h, y + 1)

NotSgr(t) == t.k # "sgr"

C22_FirstCellReset ==
    \A p \in Procs :
        (g[p].op = "Show" /\ Len(g[p].out) >= 2)
            => g[p].out[2] = [k |-> "sgr", p |-> <<0>>]

\* the attribute sequence of a cell: the reset, then the codes of what is
\* not default
AttrSeq(c) ==
    <<[k |-> "sgr", p |-> <<0>>]>>
        \o (IF c.Fg.mode # 0 THEN <<AnsiCode(c.Fg, TRUE)>> ELSE <<>>)
        \o (IF c.Bg.mode # 0 THEN <<AnsiCode(c.Bg, FALSE)>> ELSE <<>>)
        \o (IF c.Style # 0 THEN <<[k |-> "sgr", p |-> StyleParams(c.Style, 0)]>> ELSE <<>>)

\* what is written for the cells n .. w*h of cs (n >= 2), each compared with
\* the cell before it in row-major order
RECURSIVE AfterFirst(_, _, _)
AfterFirst(cs, w, n) ==
    IF n > Len(cs) THEN <<>>
    ELSE (IF (n - 1) % w = 0 THEN <<[k |-> "crlf", p |-> <<>>]>> ELSE <<>>)
            \o (IF <<cs[n].Fg, cs[n].Bg, cs[n].Style>> # <<cs[n - 1].Fg, cs[n - 1].Bg, cs[n - 1].Style>>
                THEN AttrSeq(cs[n]) ELSE <<>>)
            \o <<[k |-> "ch", p |-> <<cs[n].Ch>>]>>
            \o AfterFirst(cs, w, n + 1)

\* the place of the first character in what was written
FirstCh(out) == CHOOSE i \in 1 .. Len(out) : out[i].k = "ch" /\ \A j \in 1 .. i - 1 : out[j].k # "ch"

\* C23: in a successful Show, what is written after the first cell's
\* character is, for each later cell in row-major order (the first of a row
\* compared with the last of the row before): the attribute sequence (reset,
\* foreground if not Default, background if not Default, style if not none)
\* if the cell's (fg, bg, style) differs from the preceding cell's, nothing
\* if it does not, and then the character in both cases.
C23_AttrRuns ==
    \A p \in Procs :
        (g[p].op = "Show" /\ g[p].pc = "RUnlock" /\ g[p].err = <<>>)
            => LET out == g[p].out
               IN SubSeq(out, FirstCh(out) + 1, Len(out))
                    = AfterFirst(cells, width, 2) \o <<[k |-> "sgr", p |-> <<0>>]>>

C23_Witness ==
    /\ g["g1"].op = "Show" /\ g["g1"].pc = "RUnlock" /\ g["g1"].err = <<>>
    /\ width = 2 /\ height = 2
    /\ cells[1].Ch = 65 /\ cells[2].Ch = 233 /\ cells[3].Ch = 32 /\ cells[4].Ch = 66
    /\ Len(g["g1"].out) = 14

\* a terminal: the cursor, the current attributes, and what it displays
BlankTerminal(w, h) ==
    [x |-> 0, y |-> 0,
     fg |-> [mode |-> 0, r |-> 0, g |-> 0, b |-> 0, index |-> 0],
     bg |-> [mode |-> 0, r |-> 0, g |-> 0, b |-> 0, index |-> 0],
     style |-> 0,
     grid |-> [c \in (0 .. w - 1) \X (0 .. h - 1) |-> <<>>]]

\* the color an SGR color sequence names, its first parameter less 30
\* (foreground) or 40 (background)
SgrColor(p, base) ==
    LET n == p[1] - base
    IN CASE n = 9 -> [mode |-> 0, r |-> 0, g |-> 0, b |-> 0, index |-> 0]
         [] n \in 0 .. 7 -> [mode |-> 1, r |-> 0, g |-> 0, b |-> 0, index |-> n]
         [] n \in 60 .. 67 -> [mode |-> 1, r |-> 0, g |-> 0, b |-> 0, index |-> n - 60 + 8]
         [] n = 8 /\ p[2] = 5 -> [mode |-> 2, r |-> 0, g |-> 0, b |-> 0, index |-> p[3]]
         [] n = 8 /\ p[2] = 2 -> [mode |-> 3, r |-> p[3], g |-> p[4], b |-> p[5], index |-> 0]

IsSgrColor(p, base) == p[1] - base \in (0 .. 9) \cup (60 .. 67)

\* the flags the parameters 1 .. 9 of a style sequence add to the style s
RECURSIVE SgrStyle(_, _)
SgrStyle(s, p) ==
    IF p = <<>> THEN s
    ELSE SgrStyle((IF (s \div (2 ^ (p[1] - 1))) % 2 = 1 THEN s ELSE s + 2 ^ (p[1] - 1)), Tail(p))

\* the terminal t receives the token tk
Feed(t, tk) ==
    CASE tk.k = "home" -> [t EXCEPT !.x = 0, !.y = 0]
      [] tk.k = "crlf" -> [t EXCEPT !.x = 0, !.y = @ + 1]
      [] tk.k = "ch" ->
            [t EXCEPT !.x = @ + 1,
                      !.grid[<<t.x, t.y>>] =
                          [Ch |-> tk.p[1], Fg |-> t.fg, Bg |-> t.bg, Style |-> t.style]]
      [] tk.k = "sgr" ->
            IF tk.p = <<>> \/ tk.p[1] = 0
            THEN [t EXCEPT !.fg = [mode |-> 0, r |-> 0, g |-> 0, b |-> 0, index |-> 0],
                           !.bg = [mode |-> 0, r |-> 0, g |-> 0, b |-> 0, index |-> 0],
                           !.style = 0]
            ELSE IF tk.p[1] \in 1 .. 9 THEN [t EXCEPT !.style = SgrStyle(@, tk.p)]
            ELSE IF IsSgrColor(tk.p, 30) THEN [t EXCEPT !.fg = SgrColor(tk.p, 30)]
            ELSE IF IsSgrColor(tk.p, 40) THEN [t EXCEPT !.bg = SgrColor(tk.p, 40)]
            ELSE t

RECURSIVE Interpret(_, _)
Interpret(t, out) == IF out = <<>> THEN t ELSE Interpret(Feed(t, Head(out)), Tail(out))

\* C26: a terminal of the buffer's size whose attributes are reset, given
\* what a successful Show wrote (a reset clears fg, bg and style, each code
\* sets its attribute, attributes last over characters and CR LF), displays
\* at every (x, y) the character, foreground, background and style of the
\* cell (x, y), and its attributes are reset at the end.
C26_Displayed ==
    \A p \in Procs :
        (g[p].op = "Show" /\ g[p].pc = "RUnlock" /\ g[p].err = <<>>)
            => LET t == Interpret(BlankTerminal(width, height), g[p].out)
               IN /\ \A x \in 0 .. width - 1, y \in 0 .. height - 1 :
                        t.grid[<<x, y>>] = cells[y * width + x + 1]
                  /\ t.fg.mode = 0 /\ t.bg.mode = 0 /\ t.style = 0

C26_Witness ==
    /\ g["g1"].op = "Show" /\ g["g1"].pc = "RUnlock" /\ g["g1"].err = <<>>
    /\ width = 2 /\ height = 2
    /\ cells[1].Ch = 32 /\ cells[2].Ch = 66 /\ cells[3].Ch = 65 /\ cells[4].Ch = 32
    /\ g["g1"].out[2] = [k |-> "ch", p |-> <<32>>]

(***************************************************************************)
(* Properties of SpecColor.                                                *)
(***************************************************************************)
\* C13: To256 of a TrueColor (r, g, b) is the color of mode Indexed256 with
\* index 16 + 36*floor(r*6/256) + 6*floor(g*6/256) + floor(b*6/256) and
\* nothing else set, the index lying in 16 .. 255; To256 of ColorRGB(255, 0, 0)
\* is ColorIndex(196).
C13_To256 ==
    (colorOp.op = "To256" /\ colorOp.c.mode = 3)
        => LET c == colorOp.c
               i == 16 + 36 * ((c.r * 6) \div 256) + 6 * ((c.g * 6) \div 256)
                       + ((c.b * 6) \div 256)
           IN /\ colorOp.out = [mode |-> 2, r |-> 0, g |-> 0, b |-> 0, index |-> i]
              /\ 16 <= i /\ i <= 255
              /\ (c.r = 255 /\ c.g = 0 /\ c.b = 0) => colorOp.out.index = 196

C13_Witness ==
    /\ colorOp.op = "To256"
    /\ colorOp.c = [mode |-> 3, r |-> 255, g |-> 0, b |-> 0, index |-> 0]
    /\ colorOp.out.index = 196

\* C14: To16 of a color of mode Indexed16, Indexed256 or TrueColor has mode
\* Indexed16 and an index in 0 .. 15.
C14_To16 ==
    (colorOp.op = "To16" /\ colorOp.c.mode \in {1, 2, 3})
        => /\ colorOp.out.mode = 1
           /\ 0 <= colorOp.out.index /\ colorOp.out.index <= 15

C14_Witness ==
    /\ colorOp.op = "To16"
    /\ colorOp.c.mode = 2 /\ colorOp.c.index = 243
    /\ colorOp.out.index = 0

\* C15 as stated: every color that ColorIndex, To256 or To16 produces has
\* mode Indexed16 if and only if its index is below 16.
C15_AsStated ==
    colorOp.op \in {"ColorIndex", "To256", "To16"}
        => (colorOp.out.mode = 1 <=> colorOp.out.index < 16)

\* C15: ColorIndex(i) has mode Indexed16 if i < 16 and Indexed256 if not,
\* and its index is i; every color of mode Indexed16 or Indexed256 that
\* ColorIndex, To256 or To16 produces has mode Indexed16 if and only if its
\* index is below 16; the colors of mode Default that To256 and To16
\* return have index 0.
C15_IndexedModes ==
    /\ colorOp.op \in {"ColorIndex", "To256", "To16"}
          => /\ colorOp.out.mode \in {1, 2}
                  => (colorOp.out.mode = 1 <=> colorOp.out.index < 16)
             /\ colorOp.out.mode = 0 => colorOp.out.index = 0
             /\ colorOp.out.index \in 0 .. 255
    /\ colorOp.op = "ColorIndex" => colorOp.out.mode \in {1, 2}

C15_Witness ==
    /\ colorOp.op = "To16"
    /\ colorOp.c.mode = 2 /\ colorOp.c.index = 16
    /\ colorOp.out.mode = 1 /\ colorOp.out.index = 0

\* C16: To256 returns an indexed color as it is, To16 an Indexed16 color as
\* it is, and both return a color of mode Default for the Default color;
\* To256 and To16 return their own results as they are, and To16 of what
\* To256 returned for c is To16 of c.
C16_Identity ==
    /\ (colorOp.op = "To256" /\ colorOp.c.mode \in {1, 2}) => colorOp.out = colorOp.c
    /\ (colorOp.op = "To16" /\ colorOp.c.mode = 1) => colorOp.out = colorOp.c
    /\ (colorOp.op \in {"To256", "To16"} /\ colorOp.c.mode = 0) => colorOp.out.mode = 0
    /\ colorOp.op = "To256" => To256(colorOp.out) = colorOp.out
    /\ colorOp.op = "To16" => To16(colorOp.out) = colorOp.out
    /\ colorOp.op = "To256" => To16(colorOp.out) = To16(colorOp.c)

C16_Witness ==
    /\ colorOp.op = "To256"
    /\ colorOp.c.mode = 2 /\ colorOp.c.index = 200
    /\ colorOp.out.index = 200

\* the SGR parameters of a color, by the table
SgrOf(c, fg) ==
    CASE c.mode = 0 -> <<IF fg THEN 39 ELSE 49>>
      [] c.mode = 1 /\ c.index < 8 -> <<(IF fg THEN 30 ELSE 40) + c.index>>
      [] c.mode = 1 /\ c.index >= 8 -> <<(IF fg THEN 90 ELSE 100) + (c.index - 8)>>
      [] c.mode = 2 -> <<IF fg THEN 38 ELSE 48, 5, c.index>>
      [] c.mode = 3 -> <<IF fg THEN 38 ELSE 48, 2, c.r, c.g, c.b>>

\* C17: ansiCode gives one SGR sequence whose parameters are those of the
\* table (computed without a width, so the code's 8-bit sums equal them),
\* and the parameters for the foreground differ from those for the
\* background.
C17_AnsiCode ==
    colorOp.op = "ansiCode"
        => /\ colorOp.code = <<[k |-> "sgr", p |-> SgrOf(colorOp.c, colorOp.fg)]>>
           /\ SgrOf(colorOp.c, TRUE) # SgrOf(colorOp.c, FALSE)
           /\ \A i \in 1 .. Len(colorOp.code[1].p) : colorOp.code[1].p[i] \in 0 .. 255

C17_Witness ==
    /\ colorOp.op = "ansiCode"
    /\ colorOp.c.mode = 1 /\ colorOp.c.index = 15
    /\ ~colorOp.fg
    /\ colorOp.code[1].p = <<107>>

Bit(s, k) == (s \div (2 ^ k)) % 2

\* C18: for a style s and a flag f of the 9: Set(f), Clear(f) and Toggle(f)
\* of s leave every other flag as it is in s; the flag f is set after
\* Set(f), clear after Clear(f) and inverted after Toggle(f), and a second
\* Toggle(f) gives s again; Has(f) tells whether f is set; StyleNone has
\* none of the 9 flags.
C18_StyleFlags ==
    /\ styleOp.op \in {"Set", "Clear", "Toggle"}
          => /\ \A k \in (0 .. 8) \ {styleOp.flag} :
                    Bit(styleOp.out, k) = Bit(styleOp.s, k)
             /\ styleOp.out \in 0 .. 511
    /\ styleOp.op = "Set" => Bit(styleOp.out, styleOp.flag) = 1
    /\ styleOp.op = "Clear" => Bit(styleOp.out, styleOp.flag) = 0
    /\ styleOp.op = "Toggle"
          => /\ Bit(styleOp.out, styleOp.flag) = 1 - Bit(styleOp.s, styleOp.flag)
             /\ StyleToggle(styleOp.out, styleOp.flag) = styleOp.s
    /\ styleOp.op = "Has" => (styleOp.has <=> Bit(styleOp.s, styleOp.flag) = 1)
    /\ \A k \in 0 .. 8 : ~HasBit(StyleNone, k) /\ Bit(0, k) = 0

C18_Witness ==
    /\ styleOp.op = "Set"
    /\ styleOp.flag = 8
    /\ styleOp.s = 1 + 8
    /\ styleOp.out = 1 + 8 + 256

C20_CloseError ==
    (tty.pc = "closed" /\ tty.rerr # <<>>)
        => /\ \E i \in 1 .. Len(tty.err) :
                 SubSeq(tty.err, i, Len(tty.err))
                    = <<[text |-> "terminal restore failed", v |-> <<>>]>>
           /\ \/ tty.err[1].v = tty.rerr
              \/ \E i \in 1 .. Len(tty.err) : SubSeq(tty.err, i, Len(tty.err)) = tty.rerr
           /\ tty.restores = 1

\* C21: after Init has succeeded and Close has then succeeded, the terminal
\* is as Init found it: its mode is the one it had before Init (raw mode is
\* left) and the cursor, which Init hid, is shown.
C21_CloseRestores ==
    (tty.pc = "closed" /\ tty.err = <<>> /\ tty.restores = 1)
        => /\ tty.mode = tty.found
           /\ tty.cursor

\* C29: when Init has ended without returning a Screen, with an error or
\* with a panic, the terminal is not in raw mode; so too when the terminal
\* reported a width or a height of zero.
C29_NotLeftRaw ==
    tty.pc \in {"Init_failed", "panic"} => tty.mode # "raw"

====
